---- MODULE Spec2Model ----
(***************************************************************************)
(* Model of dsp::core::FFTPlan<T> (src/src/core/fft/fft_plan.hpp/.cpp):    *)
(* construction of a plan, and the forward / inverse transforms executed   *)
(* one loop iteration at a time on caller-owned buffers.                   *)
(*                                                                         *)
(* The element type T (float / double) is replaced by the prime field      *)
(* Z_Modulus, and std::complex<T> by Z_Modulus[i]: pairs <<re, im>> with   *)
(* the product and conjugate of std::complex.  Modulus = 23 has a square   *)
(* root of 2, so cos and sin of every multiple of pi/4 are exact elements  *)
(* and the twiddle factors of the sizes 1, 2, 4, 8 are exact roots of      *)
(* unity; rounding error is the one thing the ring does not show.          *)
(*                                                                         *)
(* The module also models dsp::polar::PolarValue<T> and PolarOperations<T> *)
(* (src/src/polar/include/dsp/polar/types.hpp, operations.hpp), which      *)
(* share no state with the plan: magnitudes on a small floating-point      *)
(* format, phases on a grid of sixths of pi.                               *)
(*                                                                         *)
(* Specifications:                                                         *)
(*   Spec       construction, then calls by one thread, one after another  *)
(*   SpecCall   a constructed plan and a single call                       *)
(*   SpecConc   a constructed plan and two threads calling at once         *)
(*   SpecLin    whole forward calls on a*x + b*y, x and y                  *)
(*   SpecOrder  the butterflies of one stage in any order                  *)
(*   SpecPair   a forward and an inverse call on equal buffers              *)
(*   SpecCtor   the constructor statement by statement, then a call        *)
(*   SpecPolar  the operations of dsp::polar::PolarValue<T> on one value   *)
(***************************************************************************)
EXTENDS Integers, Sequences, FiniteSets, TLC

\* ---------------------------------------------------------------- bounds
MaxSize == 8        \* sizes requested from the constructor: 0..MaxSize
MaxLen == 8         \* lengths of the caller's buffers: 1..MaxLen
MaxCalls == 2       \* forward/inverse calls made by one thread
MaxPhase == 20      \* phases and angles passed to PolarValue: -MaxPhase..MaxPhase
MaxOnes == 2        \* nonzero elements of a buffer before the first call
NumThreads == 2     \* threads that may exist
NumBuffers == 3     \* buffers that may exist
LinMaxSize == 4     \* plan sizes of the linearity specification
ConcMaxSize == 4    \* plan sizes of the concurrency specification
ConcMaxOnes == 1    \* nonzero elements of its buffers
OrdMaxOnes == 1     \* nonzero elements of the buffers of the stage-order specification

Threads == 1..NumThreads
Buffers == 1..NumBuffers
NullPtr == 0

\* ------------------------------------------------- the element type T
Modulus == 23
\* cos(pi/4) = sin(pi/4) = 1/sqrt(2): 14*14 = 196 = 12 (mod 23), 2*12 = 1
HalfSqrt == 14

Zero == <<0, 0>>
One == <<1, 0>>

CAdd(a, b) == <<(a[1] + b[1]) % Modulus, (a[2] + b[2]) % Modulus>>

CSub(a, b) ==
  <<(a[1] + Modulus - b[1]) % Modulus, (a[2] + Modulus - b[2]) % Modulus>>

CMul(a, b) ==
  <<(a[1] * b[1] + Modulus * Modulus - a[2] * b[2]) % Modulus,
    (a[1] * b[2] + a[2] * b[1]) % Modulus>>

\* std::conj
Conj(a) == <<a[1], (Modulus - a[2]) % Modulus>>

\* std::complex<T>::operator*=(const T&)
CMulReal(a, s) == <<(a[1] * s) % Modulus, (a[2] * s) % Modulus>>

\* T(1) / static_cast<T>(size); 1/0 is the one non-finite quotient (inf),
\* written 0 here: no plan keeps it, the constructor throws for size 0.
RealInv(n) ==
  IF n % Modulus = 0 THEN 0
  ELSE CHOOSE x \in 1..(Modulus - 1) : (x * n) % Modulus = 1

\* cos and sin of e eighths of a turn, e in 0..7
CosEighth == <<1, HalfSqrt, 0, Modulus - HalfSqrt,
               Modulus - 1, Modulus - HalfSqrt, 0, HalfSqrt>>
SinEighth == <<0, HalfSqrt, 1, HalfSqrt,
               0, Modulus - HalfSqrt, Modulus - 1, Modulus - HalfSqrt>>

\* angle = -2 * pi * k / size, as a number of eighths of a turn in 0..7
\* (exact for the sizes that divide 8)
AngleEighths(k, size) == (8 - (((8 * k) \div size) % 8)) % 8

\* std::complex<T>(std::cos(angle), std::sin(angle))
Cis(k, size) ==
  <<CosEighth[AngleEighths(k, size) + 1], SinEighth[AngleEighths(k, size) + 1]>>

\* ------------------------------------------------------ size_t helpers
RECURSIVE BitAnd(_, _)
BitAnd(a, b) ==
  IF a = 0 \/ b = 0 THEN 0
  ELSE (a % 2) * (b % 2) + 2 * BitAnd(a \div 2, b \div 2)

\* (variant: value > 0 not tested; 0 & (0 - 1) is 0)
isPowerOfTwoNoZeroCheck(value) == value = 0 \/ BitAnd(value, value - 1) = 0

isPowerOfTwo(value) == value > 0 /\ BitAnd(value, value - 1) = 0

\* static_cast<size_t>(std::log2(static_cast<double>(value))), value >= 1
RECURSIVE log2(_)
log2(value) == IF value <= 1 THEN 0 ELSE 1 + log2(value \div 2)

RECURSIVE reverseBitsLoop(_, _, _, _)
reverseBitsLoop(result, value, i, bits) ==
  IF i >= bits THEN result
  ELSE reverseBitsLoop(2 * result + (value % 2), value \div 2, i + 1, bits)

\* (variant: the loop one iteration short)
reverseBitsOneShort(value, bits) == reverseBitsLoop(0, value, 1, bits)

reverseBits(value, bits) == reverseBitsLoop(0, value, 0, bits)

\* ---------------------------------------------------------- the plan
FFTPlanConfig == [inPlace : BOOLEAN, useAVX : BOOLEAN, doublePrec : BOOLEAN]
DefaultConfig == [inPlace |-> TRUE, useAVX |-> TRUE, doublePrec |-> FALSE]
\* the configurations the constructor is called with
Configs == {DefaultConfig,
            [inPlace |-> FALSE, useAVX |-> FALSE, doublePrec |-> TRUE]}

initTwiddles(size) == [k \in 0..((size \div 2) - 1) |-> Cis(k, size)]

\* (variant: the bits rotated by one place instead of reversed)
initBitReversalIndicesRotated(size, stages) ==
  [i \in 0..(size - 1) |-> IF size = 1 THEN 0
                            ELSE ((2 * i) % size) + ((2 * i) \div size)]

initBitReversalIndices(size, stages) ==
  [i \in 0..(size - 1) |-> reverseBits(i, stages)]

\* (variant: a configuration flag selecting another normalisation)
FFTPlanScaledByConfig(size, config) ==
  [size |-> size,
   config |-> config,
   scaleFactor |-> IF config.doublePrec THEN 1 ELSE RealInv(size),
   stages |-> log2(size),
   twiddles |-> initTwiddles(size),
   bitReversalIndices |-> initBitReversalIndices(size, log2(size))]

\* the members a successful constructor leaves
FFTPlan(size, config) ==
  [size |-> size,
   config |-> config,
   scaleFactor |-> RealInv(size),
   stages |-> log2(size),
   twiddles |-> initTwiddles(size),
   bitReversalIndices |-> initBitReversalIndices(size, log2(size))]

\* no plan object exists
NoPlan ==
  [size |-> 0, config |-> DefaultConfig, scaleFactor |-> 0, stages |-> 0,
   twiddles |-> <<>>, bitReversalIndices |-> <<>>]

\* ------------------------------------------------- the caller's buffer
\* A buffer is a function on 0..len-1; a null pointer points at no element.
BufLen(d) == Cardinality(DOMAIN d)

\* values foreign memory may hold
UBVals == {Zero, One}

\* what a call that ran into undefined behaviour may leave in the buffer d:
\* what it had written so far, or foreign values all over it
UBOutcomes(d) == {d} \cup {[k \in DOMAIN d |-> v] : v \in UBVals}

\* The buffer is updated in place: an iteration stores its result (v) before
\* the next one (e) reads it.
After(v, e) == IF v = v THEN e ELSE e

\* (variant: the swap made from both ends of a pair)
bitReverseSwapsBothWays(p, i) == i # p.bitReversalIndices[i]

\* if (i < j): iteration i of the loop of bitReverse swaps
bitReverseSwaps(p, i) == i < p.bitReversalIndices[i]

\* one iteration of the loop of bitReverse
bitReverseIter(p, d, i) ==
  LET j == p.bitReversalIndices[i]
  IN IF bitReverseSwaps(p, i) THEN [d EXCEPT ![i] = d[j], ![j] = d[i]] ELSE d

RECURSIVE bitReverseFrom(_, _, _)
bitReverseFrom(p, d, i) ==
  IF i >= p.size THEN d
  ELSE LET nd == bitReverseIter(p, d, i)
       IN After(nd, bitReverseFrom(p, nd, i + 1))

bitReverse(p, d) == bitReverseFrom(p, d, 0)

\* the loop constants of butterflyPass
butterflySize(stage) == 2 ^ stage
\* (variant: the group count shifted one bit too little)
numGroupsTwice(p, stage) == p.size \div (2 ^ stage)

numGroups(p, stage) == p.size \div (2 ^ (stage + 1))
\* (variant: the groups half a group apart, so that they overlap)
groupStepOverlapping(stage) == butterflySize(stage)

groupStep(stage) == 2 * butterflySize(stage)

\* (variant: the stride not shifted for the stage's group size)
twiddle_stepNotShifted(p, stage) == p.size \div (2 ^ stage)

\* (variant: the stride shifted one bit too far)
twiddle_stepShiftedTooFar(p, stage) == p.size \div (2 ^ (stage + 2))

twiddle_step(p, stage) == p.size \div (2 ^ (stage + 1))

\* the twiddle index of butterfly number `butterfly` of a group: twiddle_idx
\* starts at 0 in every group and grows by twiddle_step per butterfly
twiddle_idxOf(p, stage, butterfly) == butterfly * twiddle_step(p, stage)

\* (variant: data[j] = temp - data[i])
butterflyIterSwappedDifference(p, d, stage, group, butterfly, twiddle_idx, inv) ==
  LET i == group * groupStep(stage) + butterfly
      j == i + butterflySize(stage)
      twiddle == IF inv THEN Conj(p.twiddles[twiddle_idx])
                 ELSE p.twiddles[twiddle_idx]
      temp == CMul(d[j], twiddle)
      d1 == [d EXCEPT ![j] = CSub(temp, d[i])]
  IN [d1 EXCEPT ![i] = CAdd(d1[i], temp)]

\* (variant: temp = data[j] + twiddle)
butterflyIterAddsTwiddle(p, d, stage, group, butterfly, twiddle_idx, inv) ==
  LET i == group * groupStep(stage) + butterfly
      j == i + butterflySize(stage)
      twiddle == IF inv THEN Conj(p.twiddles[twiddle_idx])
                 ELSE p.twiddles[twiddle_idx]
      temp == CAdd(d[j], twiddle)
      d1 == [d EXCEPT ![j] = CSub(d[i], temp)]
  IN [d1 EXCEPT ![i] = CAdd(d1[i], temp)]

\* (variant: the conjugate taken of the sample instead of the twiddle)
butterflyIterConjugatesData(p, d, stage, group, butterfly, twiddle_idx, inv) ==
  LET i == group * groupStep(stage) + butterfly
      j == i + butterflySize(stage)
      temp == CMul(Conj(d[j]), p.twiddles[twiddle_idx])
      d1 == [d EXCEPT ![j] = CSub(d[i], temp)]
  IN [d1 EXCEPT ![i] = CAdd(d1[i], temp)]

\* (variant: the conjugate stored back into the table)
twiddlesAfterButterflyConjugatedInPlace(p, twiddle_idx, inv) ==
  IF inv THEN [p.twiddles EXCEPT ![twiddle_idx] = Conj(@)] ELSE p.twiddles

\* std::complex<T> twiddle = twiddles_[twiddle_idx]; if (inverse) twiddle =
\* std::conj(twiddle): the conjugate goes to the local copy, twiddles_ of the
\* const member function stays as it was
twiddlesAfterButterfly(p, twiddle_idx, inv) == p.twiddles

\* the factor a butterfly multiplies data[j] by: the table entry, for the
\* inverse transform its conjugate
twiddleAtUse(p, twiddle_idx, inv) ==
  IF inv THEN Conj(p.twiddles[twiddle_idx]) ELSE p.twiddles[twiddle_idx]

\* one iteration of the inner loop of butterflyPass
butterflyIter(p, d, stage, group, butterfly, twiddle_idx, inv) ==
  LET groupOffset == group * groupStep(stage)
      i == groupOffset + butterfly
      j == i + butterflySize(stage)
      twiddle == twiddleAtUse(p, twiddle_idx, inv)
      temp == CMul(d[j], twiddle)
      d1 == [d EXCEPT ![j] = CSub(d[i], temp)]
  IN [d1 EXCEPT ![i] = CAdd(d1[i], temp)]

RECURSIVE butterflyLoop(_, _, _, _, _, _, _)
butterflyLoop(p, d, stage, group, butterfly, twiddle_idx, inv) ==
  IF group >= numGroups(p, stage) THEN d
  ELSE IF butterfly >= butterflySize(stage)
       THEN butterflyLoop(p, d, stage, group + 1, 0, 0, inv)
       ELSE LET nd == butterflyIter(p, d, stage, group, butterfly,
                                    twiddle_idx, inv)
            IN After(nd, butterflyLoop(p, nd, stage, group, butterfly + 1,
                                       twiddle_idx + twiddle_step(p, stage), inv))

butterflyPass(p, d, stage, inv) == butterflyLoop(p, d, stage, 0, 0, 0, inv)

RECURSIVE computeButterfliesFrom(_, _, _, _)
computeButterfliesFrom(p, d, stage, inv) ==
  IF stage >= p.stages THEN d
  ELSE LET nd == butterflyPass(p, d, stage, inv)
       IN After(nd, computeButterfliesFrom(p, nd, stage + 1, inv))

computeButterflies(p, d, inv) == computeButterfliesFrom(p, d, 0, inv)

\* (variant: the scaling forgotten)
scaleIterUnscaled(p, d, i) == d

\* one iteration of the scaling loop of inverse
scaleIter(p, d, i) == [d EXCEPT ![i] = CMulReal(d[i], p.scaleFactor)]

RECURSIVE scaleFrom(_, _, _)
scaleFrom(p, d, i) ==
  IF i >= p.size THEN d
  ELSE LET nd == scaleIter(p, d, i)
       IN After(nd, scaleFrom(p, nd, i + 1))

\* what forward / inverse leave in a buffer of at least p.size elements
forwardResult(p, d) ==
  LET permuted == bitReverse(p, d)
  IN After(permuted, computeButterflies(p, permuted, FALSE))

inverseResult(p, d) ==
  LET permuted == bitReverse(p, d)
      staged == After(permuted, computeButterflies(p, permuted, TRUE))
  IN After(staged, scaleFrom(p, staged, 0))

\* ------------------------------------- PolarValue<T>: the element type T
\* (src/src/polar/include/dsp/polar/types.hpp, operations.hpp)
\* Magnitudes and scalars are values of a binary floating-point format with
\* a one-bit significand: zero, the powers of two from the smallest
\* subnormal to the largest finite value, with either sign, the two
\* infinities and NaN.  A finite value is written as an integer, in units of
\* the smallest subnormal; products and quotients of powers of two are exact
\* until they overflow to infinity or underflow to zero.
FloatMaxExp == 7
FloatMax == 2 ^ FloatMaxExp      \* std::numeric_limits<T>::max()
FloatMin == 2                    \* std::numeric_limits<T>::min()
FloatOne == 16                   \* T(1)
Infinity == 2 * FloatMax
NaN == Infinity + 1

Floats ==
  {0} \cup {2 ^ k : k \in 0..FloatMaxExp} \cup {-(2 ^ k) : k \in 0..FloatMaxExp}
      \cup {Infinity, -Infinity, NaN}

\* comparisons with NaN are false
FLess(x, y) == x # NaN /\ y # NaN /\ x < y
FLessEq(x, y) == x # NaN /\ y # NaN /\ x <= y
FAbs(x) == IF x = NaN THEN NaN ELSE IF x < 0 THEN -x ELSE x
FNeg(x) == IF x = NaN THEN NaN ELSE -x
FSign(x, y) == IF (x < 0) # (y < 0) THEN -1 ELSE 1
FRound(m) == IF m > FloatMax THEN Infinity ELSE m

FMul(x, y) ==
  IF x = NaN \/ y = NaN THEN NaN
  ELSE IF FAbs(x) = Infinity \/ FAbs(y) = Infinity
       THEN IF x = 0 \/ y = 0 THEN NaN ELSE FSign(x, y) * Infinity
       ELSE FSign(x, y) * FRound((FAbs(x) * FAbs(y)) \div FloatOne)

FDiv(x, y) ==
  IF x = NaN \/ y = NaN THEN NaN
  ELSE IF FAbs(y) = Infinity
       THEN IF FAbs(x) = Infinity THEN NaN ELSE 0
       ELSE IF FAbs(x) = Infinity THEN FSign(x, y) * Infinity
       ELSE IF y = 0 THEN IF x = 0 THEN NaN ELSE FSign(x, y) * Infinity
       ELSE FSign(x, y) * FRound((FAbs(x) * FloatOne) \div FAbs(y))

\* Phases and angles are integers, in units of a sixth of pi; sums and
\* differences of angles are exact.
PI == 6
TWO_PI == 2 * PI
PI_BOUNDARY_EPSILON == 2
MIN_MAGNITUDE == FloatMin * 2
MAX_MAGNITUDE == FloatMax \div 2

abs(x) == IF x < 0 THEN -x ELSE x

\* std::fmod: the remainder has the sign of x
fmod(x, y) == IF x >= 0 THEN x % y ELSE -((-x) % y)

snapToBoundary(angle) ==
  IF abs(angle) < PI_BOUNDARY_EPSILON THEN 0
  ELSE IF abs(angle - PI) < PI_BOUNDARY_EPSILON THEN PI
  ELSE IF abs(angle + PI) < PI_BOUNDARY_EPSILON THEN -PI
  ELSE angle

normalizePhase(raw) ==
  LET r == fmod(raw, TWO_PI)
      mapped == IF r > PI THEN r - TWO_PI
                ELSE IF r <= -PI THEN r + TWO_PI
                ELSE r
  IN snapToBoundary(mapped)

\* (variant: only an exact zero counts as zero)
isEffectivelyZeroExact(val) == val = 0

isEffectivelyZero(val) == FLessEq(FAbs(val), MIN_MAGNITUDE)

\* ------------------------------------------- PolarValue<T>: the functions
\* A function gives what it threw ("none" if nothing) and a value: for a
\* member that changes its object, the object as the call leaves it; for the
\* others the value returned.
NoError == "none"
Returns(v) == [thrown |-> NoError, value |-> v]
Throws(msg, v) == [thrown |-> msg, value |-> v]

\* an exception leaving a noexcept function ends the program
Noexcept(r) ==
  IF r.thrown = NoError THEN r ELSE Throws("std::terminate", r.value)

\* PolarValue()
PolarValueDefault == [magnitude_ |-> 0, phase_ |-> 0]

setMagnitude(self, mag) ==
  IF FLess(mag, 0) THEN Throws("Negative magnitude", self)
  ELSE IF FLess(MAX_MAGNITUDE, mag)
       THEN Throws("Magnitude exceeds maximum safe value", self)
       ELSE Returns([self EXCEPT !.magnitude_ = mag])

setPhase(self, phase) == Returns([self EXCEPT !.phase_ = normalizePhase(phase)])

\* PolarValue(mag, phase)
PolarValue(mag, phase) ==
  LET m == setMagnitude(PolarValueDefault, mag)
  IN IF m.thrown # NoError THEN m ELSE setPhase(m.value, phase)

isZero(self) == isEffectivelyZero(self.magnitude_)

\* operator*=(const PolarValue&)
opMulAssign(self, rhs) ==
  IF isEffectivelyZero(self.magnitude_) \/ isEffectivelyZero(rhs.magnitude_)
  THEN Returns([magnitude_ |-> 0, phase_ |-> 0])
  ELSE Returns([magnitude_ |-> FMul(self.magnitude_, rhs.magnitude_),
                phase_ |-> normalizePhase(self.phase_ + rhs.phase_)])

\* (variant: the quotient taken before the divisor is looked at)
opDivAssignChecksLate(self, rhs) ==
  LET q == [magnitude_ |-> FDiv(self.magnitude_, rhs.magnitude_),
            phase_ |-> normalizePhase(self.phase_ - rhs.phase_)]
  IN IF isEffectivelyZero(rhs.magnitude_)
     THEN Throws("Division by zero magnitude", q)
     ELSE Returns(q)

\* operator/=(const PolarValue&)
opDivAssign(self, rhs) ==
  IF isEffectivelyZero(rhs.magnitude_)
  THEN Throws("Division by zero magnitude", self)
  ELSE Returns([magnitude_ |-> FDiv(self.magnitude_, rhs.magnitude_),
                phase_ |-> normalizePhase(self.phase_ - rhs.phase_)])

\* operator*=(T scalar)
opMulAssignScalar(self, scalar) ==
  IF isEffectivelyZero(scalar)
  THEN Returns([magnitude_ |-> 0, phase_ |-> 0])
  ELSE IF FLess(scalar, 0)
       THEN Returns([magnitude_ |-> FMul(self.magnitude_, FNeg(scalar)),
                     phase_ |-> normalizePhase(self.phase_ + PI)])
       ELSE Returns([self EXCEPT !.magnitude_ = FMul(self.magnitude_, scalar)])

conjugate(self) == Noexcept(PolarValue(self.magnitude_, -self.phase_))

reciprocal(self) ==
  IF isZero(self) THEN Throws("Reciprocal of zero", self)
  ELSE PolarValue(FDiv(FloatOne, self.magnitude_), -self.phase_)

\* operator/(PolarValue lhs, const PolarValue& rhs) of types.hpp: lhs is a copy
opDiv(lhs, rhs) == opDivAssign(lhs, rhs)

\* PolarOperations<T>
multiply(a, b) ==
  IF isZero(a) \/ isZero(b) THEN Returns(PolarValueDefault)
  ELSE Noexcept(PolarValue(FMul(a.magnitude_, b.magnitude_),
                           normalizePhase(a.phase_ + b.phase_)))

divide(a, b) ==
  IF isZero(b) THEN Throws("Division by zero magnitude", a)
  ELSE PolarValue(FDiv(a.magnitude_, b.magnitude_),
                  normalizePhase(a.phase_ - b.phase_))

scale(v, scalar) ==
  IF isEffectivelyZero(scalar) THEN Returns(PolarValueDefault)
  ELSE IF FLess(scalar, 0)
       THEN PolarValue(FMul(v.magnitude_, FNeg(scalar)),
                       normalizePhase(v.phase_ + PI))
       ELSE PolarValue(FMul(v.magnitude_, scalar), v.phase_)

rotate(v, angle) ==
  Noexcept(PolarValue(v.magnitude_, normalizePhase(v.phase_ + angle)))

PolarOperations_conjugate(v) == Noexcept(PolarValue(v.magnitude_, -v.phase_))

PolarOperations_reciprocal(v) ==
  IF isZero(v) THEN Throws("Reciprocal of zero", v)
  ELSE PolarValue(FDiv(FloatOne, v.magnitude_), -v.phase_)

\* ------------------------------------------------------------ the state
VARIABLES
  plan,      \* the members of the plan object (NoPlan until constructed)
  ctor,      \* the constructor call: its state, the size asked for, what it threw
  mem,       \* the caller's buffers, by pointer
  threads,   \* the threads that exist
  pc,        \* per thread: where its forward/inverse call stands
  op,        \* per thread: "forward" or "inverse", the call it is in or made last
  data,      \* per thread: the pointer passed to that call
  loc,       \* per thread: the loop variables of the call
  entry,     \* per thread: the buffer as it was when the call was entered
  prev,      \* per thread: the call before the current one
  err,       \* per thread: what the call threw ("none" if nothing)
  calls,     \* per thread: calls made so far
  steps,     \* per thread: loop iterations executed by the call, per loop
  trace,     \* per thread: the buffer accesses of the call, one entry per iteration
  coef,      \* the scalars a, b of the linearity specification
  applied,   \* the buffers transformed by the linearity specification
  ran,       \* stage-order specification: the butterflies finished, in order
  inflight,  \* stage-order specification: butterflies that have read their
             \* pair and not yet written it, with the values read
  value,     \* polar specification: the PolarValue object, its two members
  thrown,    \* polar specification: what the last operation on it threw
  last       \* polar specification: the last operation and its right operand

vars == <<plan, ctor, mem, threads, pc, op, data, loc, entry, prev, err,
          calls, steps, trace, coef, applied, ran, inflight,
          value, thrown, last>>

fftVars == <<plan, ctor, mem, threads, pc, op, data, loc, entry, prev, err,
             calls, steps, trace, coef, applied, ran, inflight>>

polarVars == <<value, thrown, last>>

orderVars == <<ran, inflight>>

threadVars == <<pc, op, data, loc, entry, prev, err, calls, steps, trace>>

\* no PolarValue has been operated on
PolarIdle ==
  /\ value = PolarValueDefault
  /\ thrown = NoError
  /\ last = [op |-> "none", operand |-> 0]

InputVals == {Zero, One}
Weight(x) == Cardinality({k \in DOMAIN x : x[k] # Zero})
InputBuffers ==
  {x \in UNION {[0..(n - 1) -> InputVals] : n \in 1..MaxLen} :
     Weight(x) <= MaxOnes}

Loc0 == [i |-> 0, stage |-> 0, group |-> 0, butterfly |-> 0, twiddle_idx |-> 0]
Steps0 == [bitReverse |-> 0, butterfly |-> 0, scale |-> 0]
NoCall == [op |-> "none", data |-> NullPtr, pc |-> "idle", entry |-> <<>>]

ThreadInit ==
  /\ pc = [t \in Threads |-> "idle"]
  /\ op = [t \in Threads |-> "none"]
  /\ data = [t \in Threads |-> NullPtr]
  /\ loc = [t \in Threads |-> Loc0]
  /\ entry = [t \in Threads |-> <<>>]
  /\ prev = [t \in Threads |-> NoCall]
  /\ err = [t \in Threads |-> "none"]
  /\ calls = [t \in Threads |-> 0]
  /\ steps = [t \in Threads |-> Steps0]
  /\ trace = [t \in Threads |-> <<>>]

\* one thread, one buffer of any length, no plan yet
Init ==
  /\ plan = NoPlan
  /\ ctor = [state |-> "none", size |-> 0, error |-> "none"]
  /\ mem \in {[b \in Buffers |-> IF b = 1 THEN x ELSE <<>>] : x \in InputBuffers}
  /\ threads = {1}
  /\ ThreadInit
  /\ coef = <<Zero, Zero>>
  /\ applied = {}
  /\ ran = <<>>
  /\ inflight = <<>>
  /\ PolarIdle

\* ------------------------------------------------------- construction
\* FFTPlan<T>::FFTPlan(size, config)
Construct(size, config) ==
  /\ ctor.state = "none"
  /\ IF ~isPowerOfTwo(size)
     THEN /\ ctor' = [state |-> "threw", size |-> size,
                      error |-> "FFT size must be a power of 2"]
          /\ plan' = plan
     ELSE /\ ctor' = [state |-> "ready", size |-> size, error |-> "none"]
          /\ plan' = FFTPlan(size, config)
  /\ UNCHANGED <<mem, threads, threadVars, coef, applied, orderVars, polarVars>>

\* ------------------------------------------------- forward and inverse
Allocated == {b \in Buffers : mem[b] # <<>>}
Running(t) == pc[t] \in {"bitReverse", "computeButterflies", "scale"}
Aborted == \E t \in Threads : pc[t] = "crashed"

\* (variant: the null check missing)
isNullNever(ptr) == FALSE

\* if (!data)
isNull(ptr) == ptr = NullPtr

\* (variant: the scaling loop put into the part forward and inverse share)
PhaseAfterButterfliesScalesBoth(p, o) == IF p.size > 0 THEN "scale" ELSE "done"

\* the loop a call is in once the loop before it has ended
PhaseAfterButterflies(p, o) ==
  IF o = "inverse" /\ p.size > 0 THEN "scale" ELSE "done"

PhaseAfterBitReverse(p, o) ==
  IF p.stages > 0 THEN "computeButterflies" ELSE PhaseAfterButterflies(p, o)

\* (variant: computeButterflies called without bitReverse before it)
PhaseAtEntrySkipsPermute(p, o) == PhaseAfterBitReverse(p, o)

PhaseAtEntry(p, o) ==
  IF p.size > 0 THEN "bitReverse" ELSE PhaseAfterBitReverse(p, o)

\* entry of forward / inverse: the null check
Enter(t, o, ptr) ==
  /\ ctor.state = "ready"
  /\ ~Aborted
  /\ t \in threads
  /\ pc[t] \in {"idle", "done", "failed"}
  /\ calls[t] < MaxCalls
  /\ calls' = [calls EXCEPT ![t] = @ + 1]
  /\ prev' = [prev EXCEPT ![t] = [op |-> op[t], data |-> data[t],
                                  pc |-> pc[t], entry |-> entry[t]]]
  /\ op' = [op EXCEPT ![t] = o]
  /\ data' = [data EXCEPT ![t] = ptr]
  /\ entry' = [entry EXCEPT ![t] = IF ptr = NullPtr THEN <<>> ELSE mem[ptr]]
  /\ loc' = [loc EXCEPT ![t] = Loc0]
  /\ steps' = [steps EXCEPT ![t] = Steps0]
  /\ trace' = [trace EXCEPT ![t] = <<>>]
  /\ IF isNull(ptr)
     THEN /\ pc' = [pc EXCEPT ![t] = "failed"]
          /\ err' = [err EXCEPT ![t] = "Null data pointer"]
     ELSE /\ pc' = [pc EXCEPT ![t] = PhaseAtEntry(plan, o)]
          /\ err' = [err EXCEPT ![t] = "none"]
  /\ UNCHANGED <<plan, ctor, mem, threads, coef, applied, orderVars, polarVars>>

forward(t, ptr) == Enter(t, "forward", ptr)

inverse(t, ptr) == Enter(t, "inverse", ptr)

\* (variant: the pointer kept in one place shared by all callers)
TargetShared(t) == IF data[1] = NullPtr THEN <<>> ELSE mem[data[1]]

\* the buffer a thread's pointer points at
Target(t) == IF data[t] = NullPtr THEN <<>> ELSE mem[data[t]]

Store(t, nd) ==
  mem' = IF data[t] = NullPtr THEN mem ELSE [mem EXCEPT ![data[t]] = nd]

\* the index pair of the butterfly a thread is at
ButterflyI(t) == loc[t].group * groupStep(loc[t].stage) + loc[t].butterfly
ButterflyJ(t) == ButterflyI(t) + butterflySize(loc[t].stage)

\* the next loop iteration of the thread reads or writes behind the end of
\* its buffer
AccessOutOfBounds(t) ==
  LET d == Target(t)
  IN CASE pc[t] = "bitReverse" ->
            /\ loc[t].i < plan.bitReversalIndices[loc[t].i]
            /\ plan.bitReversalIndices[loc[t].i] \notin DOMAIN d
       [] pc[t] = "computeButterflies" -> ButterflyJ(t) \notin DOMAIN d
       [] pc[t] = "scale" -> loc[t].i \notin DOMAIN d
       [] OTHER -> FALSE

\* one iteration of the loop of bitReverse (fft_plan.cpp:74-79)
BitReverseStep(t) ==
  /\ ~Aborted
  /\ pc[t] = "bitReverse"
  /\ ~AccessOutOfBounds(t)
  /\ Store(t, bitReverseIter(plan, Target(t), loc[t].i))
  /\ steps' = [steps EXCEPT ![t].bitReverse = @ + 1]
  /\ trace' = [trace EXCEPT ![t] =
                 Append(@, [loop |-> "bitReverse", stage |-> 0, group |-> 0,
                            butterfly |-> 0, i |-> loc[t].i,
                            j |-> plan.bitReversalIndices[loc[t].i],
                            twiddle_idx |-> 0, twiddle |-> Zero,
                            wrote |-> bitReverseSwaps(plan, loc[t].i)])]
  /\ IF loc[t].i + 1 < plan.size
     THEN /\ loc' = [loc EXCEPT ![t].i = @ + 1]
          /\ pc' = pc
     ELSE /\ loc' = [loc EXCEPT ![t] = Loc0]
          /\ pc' = [pc EXCEPT ![t] = PhaseAfterBitReverse(plan, op[t])]
  /\ UNCHANGED <<plan, ctor, threads, op, data, entry, prev, err, calls,
                 coef, applied, orderVars, polarVars>>

\* one iteration of the inner loop of butterflyPass (fft_plan.cpp:101-115),
\* followed by the loop headers that lead to the next one
ButterflyStep(t) ==
  LET l == loc[t] IN
  /\ ~Aborted
  /\ pc[t] = "computeButterflies"
  /\ ~AccessOutOfBounds(t)
  /\ Store(t, butterflyIter(plan, Target(t), l.stage, l.group, l.butterfly,
                            l.twiddle_idx, op[t] = "inverse"))
  /\ steps' = [steps EXCEPT ![t].butterfly = @ + 1]
  /\ trace' = [trace EXCEPT ![t] =
                 Append(@, [loop |-> "butterflyPass", stage |-> l.stage,
                            group |-> l.group, butterfly |-> l.butterfly,
                            i |-> ButterflyI(t), j |-> ButterflyJ(t),
                            twiddle_idx |-> l.twiddle_idx,
                            twiddle |-> twiddleAtUse(plan, l.twiddle_idx,
                                                     op[t] = "inverse"),
                            wrote |-> TRUE])]
  /\ plan' = [plan EXCEPT !.twiddles =
                twiddlesAfterButterfly(plan, l.twiddle_idx, op[t] = "inverse")]
  /\ IF l.butterfly + 1 < butterflySize(l.stage)
     THEN /\ loc' = [loc EXCEPT ![t].butterfly = @ + 1,
                                ![t].twiddle_idx = @ + twiddle_step(plan, l.stage)]
          /\ pc' = pc
     ELSE IF l.group + 1 < numGroups(plan, l.stage)
     THEN /\ loc' = [loc EXCEPT ![t].group = @ + 1, ![t].butterfly = 0,
                                ![t].twiddle_idx = 0]
          /\ pc' = pc
     ELSE IF l.stage + 1 < plan.stages
     THEN /\ loc' = [loc EXCEPT ![t].stage = @ + 1, ![t].group = 0,
                                ![t].butterfly = 0, ![t].twiddle_idx = 0]
          /\ pc' = pc
     ELSE /\ loc' = [loc EXCEPT ![t] = Loc0]
          /\ pc' = [pc EXCEPT ![t] = PhaseAfterButterflies(plan, op[t])]
  /\ UNCHANGED <<ctor, threads, op, data, entry, prev, err, calls,
                 coef, applied, orderVars, polarVars>>

\* one iteration of the scaling loop of inverse (fft_plan.cpp:45-47)
ScaleStep(t) ==
  /\ ~Aborted
  /\ pc[t] = "scale"
  /\ ~AccessOutOfBounds(t)
  /\ Store(t, scaleIter(plan, Target(t), loc[t].i))
  /\ steps' = [steps EXCEPT ![t].scale = @ + 1]
  /\ trace' = [trace EXCEPT ![t] =
                 Append(@, [loop |-> "scale", stage |-> 0, group |-> 0,
                            butterfly |-> 0, i |-> loc[t].i, j |-> loc[t].i,
                            twiddle_idx |-> 0, twiddle |-> Zero,
                            wrote |-> TRUE])]
  /\ IF loc[t].i + 1 < plan.size
     THEN /\ loc' = [loc EXCEPT ![t].i = @ + 1]
          /\ pc' = pc
     ELSE /\ loc' = [loc EXCEPT ![t] = Loc0]
          /\ pc' = [pc EXCEPT ![t] = "done"]
  /\ UNCHANGED <<plan, ctor, threads, op, data, entry, prev, err, calls,
                 coef, applied, orderVars, polarVars>>

\* An access behind the end of the buffer is undefined behaviour.  One
\* outcome: the process dies.
Crash(t) ==
  /\ ~Aborted
  /\ Running(t)
  /\ AccessOutOfBounds(t)
  /\ pc' = [pc EXCEPT ![t] = "crashed"]
  /\ UNCHANGED <<plan, ctor, mem, threads, op, data, loc, entry, prev, err,
                 calls, steps, trace, coef, applied, orderVars, polarVars>>

\* the iterations the loops of a call run through, from their headers:
\* i < size_; stage < stages_, group < numGroups, butterfly < butterflySize;
\* and for inverse i < size_ again
RECURSIVE butterflyIterations(_, _)
butterflyIterations(p, stage) ==
  IF stage >= p.stages THEN 0
  ELSE numGroups(p, stage) * butterflySize(stage) + butterflyIterations(p, stage + 1)

LoopIterations(p, o) ==
  [bitReverse |-> p.size,
   butterfly |-> butterflyIterations(p, 0),
   scale |-> IF o = "inverse" THEN p.size ELSE 0]

\* The other outcome: the call goes on reading and writing foreign memory,
\* runs its loops to their end and returns, nothing thrown, with the buffer
\* holding one of UBOutcomes.
Corrupt(t) ==
  /\ ~Aborted
  /\ Running(t)
  /\ AccessOutOfBounds(t)
  /\ \E nd \in UBOutcomes(Target(t)) : Store(t, nd)
  /\ pc' = [pc EXCEPT ![t] = "done"]
  /\ steps' = [steps EXCEPT ![t] = LoopIterations(plan, op[t])]
  /\ UNCHANGED <<plan, ctor, threads, op, data, loc, entry, prev, err,
                 calls, trace, coef, applied, orderVars, polarVars>>

Next ==
  \/ \E size \in 0..MaxSize, config \in Configs : Construct(size, config)
  \/ \E t \in Threads, ptr \in {NullPtr} \cup Allocated : forward(t, ptr)
  \/ \E t \in Threads, ptr \in {NullPtr} \cup Allocated : inverse(t, ptr)
  \/ \E t \in Threads : BitReverseStep(t)
  \/ \E t \in Threads : ButterflyStep(t)
  \/ \E t \in Threads : ScaleStep(t)
  \/ \E t \in Threads : Crash(t)
  \/ \E t \in Threads : Corrupt(t)

Spec == Init /\ [][Next]_vars

\* ------------------------------------------ the linearity specification
\* forward as one step, applied to the three buffers a*x + b*y, x and y
LinVals == {Zero, One, <<2, 3>>}
LinScalars == {One, <<0, 1>>, <<2, 3>>}
LinSizes == {n \in 1..LinMaxSize : isPowerOfTwo(n)}

Combine(a, x, b, y) ==
  [k \in DOMAIN x |-> CAdd(CMul(a, x[k]), CMul(b, y[k]))]

LinInit ==
  /\ \E size \in LinSizes, a \in LinScalars, b \in LinScalars :
       \E x \in [0..(size - 1) -> LinVals], y \in [0..(size - 1) -> LinVals] :
         /\ plan = FFTPlan(size, DefaultConfig)
         /\ ctor = [state |-> "ready", size |-> size, error |-> "none"]
         /\ coef = <<a, b>>
         /\ mem = [q \in Buffers |-> CASE q = 1 -> Combine(a, x, b, y)
                                       [] q = 2 -> x
                                       [] q = 3 -> y
                                       [] OTHER -> <<>>]
  /\ threads = {}
  /\ ThreadInit
  /\ applied = {}
  /\ ran = <<>>
  /\ inflight = <<>>
  /\ PolarIdle

\* a whole call forward(data) on a buffer of at least plan.size elements
forwardCall(ptr) ==
  /\ ctor.state = "ready"
  /\ ptr \in Allocated \ applied
  /\ ~isNull(ptr)
  /\ BufLen(mem[ptr]) >= plan.size
  /\ mem' = [mem EXCEPT ![ptr] = forwardResult(plan, mem[ptr])]
  /\ applied' = applied \cup {ptr}
  /\ UNCHANGED <<plan, ctor, threads, threadVars, coef, orderVars, polarVars>>

LinNext == \E ptr \in Buffers : forwardCall(ptr)

SpecLin == LinInit /\ [][LinNext]_vars

\* ---------------------------------------- the concurrency specification
\* One ready plan, two buffers (the first of any content and perhaps one
\* element short, the second a shifted impulse of the plan's size), two
\* threads, each making one call, on either buffer or with a null pointer;
\* their loop iterations interleave in every order.
ConcSizes == {n \in 1..ConcMaxSize : isPowerOfTwo(n)}

ConcInputs(size) ==
  {x \in UNION {[0..(n - 1) -> InputVals] : n \in {size - 1, size} \ {0}} :
     Weight(x) <= ConcMaxOnes}

ShiftedImpulse(size) ==
  [k \in 0..(size - 1) |-> IF k = size \div 2 THEN One ELSE Zero]

ConcInit ==
  /\ \E size \in ConcSizes :
       /\ plan = FFTPlan(size, DefaultConfig)
       /\ ctor = [state |-> "ready", size |-> size, error |-> "none"]
       /\ \E x \in ConcInputs(size) :
            mem = [q \in Buffers |-> CASE q = 1 -> x
                                      [] q = 2 -> ShiftedImpulse(size)
                                      [] OTHER -> <<>>]
  /\ threads = {1, 2}
  /\ pc = [t \in Threads |-> "idle"]
  /\ op = [t \in Threads |-> "none"]
  /\ data = [t \in Threads |-> NullPtr]
  /\ loc = [t \in Threads |-> Loc0]
  /\ entry = [t \in Threads |-> <<>>]
  /\ prev = [t \in Threads |-> NoCall]
  /\ err = [t \in Threads |-> "none"]
  /\ calls = [t \in Threads |-> MaxCalls - 1]
  /\ steps = [t \in Threads |-> Steps0]
  /\ trace = [t \in Threads |-> <<>>]
  /\ coef = <<Zero, Zero>>
  /\ applied = {}
  /\ ran = <<>>
  /\ inflight = <<>>
  /\ PolarIdle

ConcNext ==
  \/ \E t \in Threads, ptr \in {NullPtr} \cup Allocated : forward(t, ptr)
  \/ \E t \in Threads, ptr \in {NullPtr} \cup Allocated : inverse(t, ptr)
  \/ \E t \in Threads : BitReverseStep(t)
  \/ \E t \in Threads : ButterflyStep(t)
  \/ \E t \in Threads : ScaleStep(t)
  \/ \E t \in Threads : Crash(t)
  \/ \E t \in Threads : Corrupt(t)

SpecConc == ConcInit /\ [][ConcNext]_vars

\* ------------------------------------------ the single-call specification
\* A plan of any accepted size and either configuration has been
\* constructed; one thread makes one call on one buffer of any length, or
\* with a null pointer.
CallInit ==
  /\ \E size \in {n \in 0..MaxSize : isPowerOfTwo(n)}, config \in Configs :
       /\ plan = FFTPlan(size, config)
       /\ ctor = [state |-> "ready", size |-> size, error |-> "none"]
  /\ mem \in {[b \in Buffers |-> IF b = 1 THEN x ELSE <<>>] : x \in InputBuffers}
  /\ threads = {1}
  /\ pc = [t \in Threads |-> "idle"]
  /\ op = [t \in Threads |-> "none"]
  /\ data = [t \in Threads |-> NullPtr]
  /\ loc = [t \in Threads |-> Loc0]
  /\ entry = [t \in Threads |-> <<>>]
  /\ prev = [t \in Threads |-> NoCall]
  /\ err = [t \in Threads |-> "none"]
  /\ calls = [t \in Threads |-> MaxCalls - 1]
  /\ steps = [t \in Threads |-> Steps0]
  /\ trace = [t \in Threads |-> <<>>]
  /\ coef = <<Zero, Zero>>
  /\ applied = {}
  /\ ran = <<>>
  /\ inflight = <<>>
  /\ PolarIdle

SpecCall == CallInit /\ [][ConcNext]_vars

\* --------------------------------------- the forward/inverse specification
\* A constructed plan and two buffers of the plan's size with equal
\* contents: thread 1 calls forward on the first, thread 2 inverse on the
\* second.
PairInit ==
  /\ \E size \in {n \in 0..MaxSize : isPowerOfTwo(n)} :
       /\ plan = FFTPlan(size, DefaultConfig)
       /\ ctor = [state |-> "ready", size |-> size, error |-> "none"]
       /\ \E x \in {b \in InputBuffers : BufLen(b) = size} :
            mem = [q \in Buffers |-> IF q \in {1, 2} THEN x ELSE <<>>]
  /\ threads = {1, 2}
  /\ pc = [t \in Threads |-> "idle"]
  /\ op = [t \in Threads |-> "none"]
  /\ data = [t \in Threads |-> NullPtr]
  /\ loc = [t \in Threads |-> Loc0]
  /\ entry = [t \in Threads |-> <<>>]
  /\ prev = [t \in Threads |-> NoCall]
  /\ err = [t \in Threads |-> "none"]
  /\ calls = [t \in Threads |-> MaxCalls - 1]
  /\ steps = [t \in Threads |-> Steps0]
  /\ trace = [t \in Threads |-> <<>>]
  /\ coef = <<Zero, Zero>>
  /\ applied = {}
  /\ ran = <<>>
  /\ inflight = <<>>
  /\ PolarIdle

PairNext ==
  \/ forward(1, 1)
  \/ inverse(2, 2)
  \/ \E t \in Threads : BitReverseStep(t)
  \/ \E t \in Threads : ButterflyStep(t)
  \/ \E t \in Threads : ScaleStep(t)

SpecPair == PairInit /\ [][PairNext]_vars

\* ------------------------------------- the construction-steps specification
\* The constructor one statement at a time.  The caller has no object to
\* call forward or inverse on before the constructor has returned, and none
\* at all once it has thrown (Enter requires ctor.state = "ready").
CtorInit ==
  /\ plan = NoPlan
  /\ ctor = [state |-> "none", size |-> 0, error |-> "none"]
  /\ mem \in {[b \in Buffers |-> IF b = 1 THEN x ELSE <<>>] : x \in InputBuffers}
  /\ threads = {1}
  /\ pc = [t \in Threads |-> "idle"]
  /\ op = [t \in Threads |-> "none"]
  /\ data = [t \in Threads |-> NullPtr]
  /\ loc = [t \in Threads |-> Loc0]
  /\ entry = [t \in Threads |-> <<>>]
  /\ prev = [t \in Threads |-> NoCall]
  /\ err = [t \in Threads |-> "none"]
  /\ calls = [t \in Threads |-> MaxCalls - 1]
  /\ steps = [t \in Threads |-> Steps0]
  /\ trace = [t \in Threads |-> <<>>]
  /\ coef = <<Zero, Zero>>
  /\ applied = {}
  /\ ran = <<>>
  /\ inflight = <<>>
  /\ PolarIdle

CtorUnchanged == UNCHANGED <<mem, threads, threadVars, coef, applied, orderVars, polarVars>>

\* the vectors default-constructed, then the member initializer list;
\* stages_ has no initializer and holds an indeterminate value
ConstructMembers(size, config) ==
  /\ ctor.state = "none"
  /\ \E indeterminate \in 0..log2(MaxSize) :
       plan' = [size |-> size,
                config |-> config,
                scaleFactor |-> RealInv(size),
                stages |-> indeterminate,
                twiddles |-> <<>>,
                bitReversalIndices |-> <<>>]
  /\ ctor' = [state |-> "validate", size |-> size, error |-> "none"]
  /\ CtorUnchanged

\* if (!isPowerOfTwo(size)) throw: the members are destroyed, no object
ConstructValidate ==
  /\ ctor.state = "validate"
  /\ IF ~isPowerOfTwo(ctor.size)
     THEN /\ ctor' = [ctor EXCEPT !.state = "threw",
                                  !.error = "FFT size must be a power of 2"]
          /\ plan' = NoPlan
     ELSE /\ ctor' = [ctor EXCEPT !.state = "stages"]
          /\ plan' = plan
  /\ CtorUnchanged

\* stages_ = log2(size)
ConstructStages ==
  /\ ctor.state = "stages"
  /\ plan' = [plan EXCEPT !.stages = log2(ctor.size)]
  /\ ctor' = [ctor EXCEPT !.state = "initTwiddles"]
  /\ CtorUnchanged

\* initTwiddles()
ConstructTwiddles ==
  /\ ctor.state = "initTwiddles"
  /\ plan' = [plan EXCEPT !.twiddles = initTwiddles(plan.size)]
  /\ ctor' = [ctor EXCEPT !.state = "initBitReversalIndices"]
  /\ CtorUnchanged

\* initBitReversalIndices(), and the constructor returns
ConstructBitReversalIndices ==
  /\ ctor.state = "initBitReversalIndices"
  /\ plan' = [plan EXCEPT !.bitReversalIndices =
                            initBitReversalIndices(plan.size, plan.stages)]
  /\ ctor' = [ctor EXCEPT !.state = "ready"]
  /\ CtorUnchanged

CtorNext ==
  \/ \E size \in 0..MaxSize, config \in Configs : ConstructMembers(size, config)
  \/ ConstructValidate
  \/ ConstructStages
  \/ ConstructTwiddles
  \/ ConstructBitReversalIndices
  \/ \E t \in Threads, ptr \in {NullPtr} \cup Allocated : forward(t, ptr)
  \/ \E t \in Threads, ptr \in {NullPtr} \cup Allocated : inverse(t, ptr)
  \/ \E t \in Threads : BitReverseStep(t)
  \/ \E t \in Threads : ButterflyStep(t)
  \/ \E t \in Threads : ScaleStep(t)
  \/ \E t \in Threads : Crash(t)
  \/ \E t \in Threads : Corrupt(t)

SpecCtor == CtorInit /\ [][CtorNext]_vars

\* ------------------------------------------------ the polar specification
\* One PolarValue object and the operations of types.hpp and operations.hpp
\* on it, in any order and with any arguments.  The result of an operation
\* that returns a PolarValue is assigned to the object.
PhaseInputs == (-MaxPhase)..MaxPhase

\* the values a caller can construct
Constructible ==
  {PolarValue(mag, phase).value :
     <<mag, phase>> \in {a \in Floats \X PhaseInputs :
                          PolarValue(a[1], a[2]).thrown = NoError}}

\* right operands: a constructed value, or the object itself
Operands == Constructible \cup {value}

PolarInit ==
  /\ plan = NoPlan
  /\ ctor = [state |-> "none", size |-> 0, error |-> "none"]
  /\ mem = [b \in Buffers |-> <<>>]
  /\ threads = {}
  /\ ThreadInit
  /\ coef = <<Zero, Zero>>
  /\ applied = {}
  /\ ran = <<>>
  /\ inflight = <<>>
  /\ PolarIdle

\* a member function called on the object
Member(name, operand, r) ==
  /\ thrown # "std::terminate"
  /\ value' = IF r.thrown = "std::terminate" THEN value ELSE r.value
  /\ thrown' = r.thrown
  /\ last' = [op |-> name, operand |-> operand]
  /\ UNCHANGED fftVars

\* value = f(...): nothing is assigned when f throws
Assign(name, operand, r) ==
  /\ thrown # "std::terminate"
  /\ value' = IF r.thrown = NoError THEN r.value ELSE value
  /\ thrown' = r.thrown
  /\ last' = [op |-> name, operand |-> operand]
  /\ UNCHANGED fftVars

ConstructValue(mag, phase) ==
  Assign("PolarValue", mag, PolarValue(mag, phase))

SetMagnitude(mag) == Member("setMagnitude", mag, setMagnitude(value, mag))

SetPhase(phase) == Member("setPhase", 0, setPhase(value, phase))

MulAssign(rhs) == Member("operator*=", rhs.magnitude_, opMulAssign(value, rhs))

DivAssign(rhs) == Member("operator/=", rhs.magnitude_, opDivAssign(value, rhs))

MulAssignScalar(scalar) ==
  Member("operator*=(T)", scalar, opMulAssignScalar(value, scalar))

Conjugate == Assign("conjugate", value.magnitude_, conjugate(value))

Reciprocal == Assign("reciprocal", value.magnitude_, reciprocal(value))

Div(rhs) == Assign("operator/", rhs.magnitude_, opDiv(value, rhs))

Multiply(rhs) == Assign("multiply", rhs.magnitude_, multiply(value, rhs))

Divide(rhs) == Assign("divide", rhs.magnitude_, divide(value, rhs))

Scale(scalar) == Assign("scale", scalar, scale(value, scalar))

Rotate(angle) == Assign("rotate", 0, rotate(value, angle))

OperationsConjugate ==
  Assign("PolarOperations::conjugate", value.magnitude_,
         PolarOperations_conjugate(value))

OperationsReciprocal ==
  Assign("PolarOperations::reciprocal", value.magnitude_,
         PolarOperations_reciprocal(value))

PolarNext ==
  \/ \E mag \in Floats, phase \in PhaseInputs : ConstructValue(mag, phase)
  \/ \E mag \in Floats : SetMagnitude(mag)
  \/ \E phase \in PhaseInputs : SetPhase(phase)
  \/ \E rhs \in Operands : MulAssign(rhs)
  \/ \E rhs \in Operands : DivAssign(rhs)
  \/ \E scalar \in Floats : MulAssignScalar(scalar)
  \/ Conjugate
  \/ Reciprocal
  \/ \E rhs \in Operands : Div(rhs)
  \/ \E rhs \in Operands : Multiply(rhs)
  \/ \E rhs \in Operands : Divide(rhs)
  \/ \E scalar \in Floats : Scale(scalar)
  \/ \E angle \in PhaseInputs : Rotate(angle)
  \/ OperationsConjugate
  \/ OperationsReciprocal

SpecPolar == PolarInit /\ [][PolarNext]_vars

\* ---------------------------------------- the stage-order specification
\* One call stands at the beginning of a stage; the butterflies of the stage
\* run in any order and overlapping in time: a butterfly first reads its
\* pair data[i], data[j] and later writes it, and other butterflies may read
\* and write in between.
OrdSizes == {n \in 2..MaxSize : isPowerOfTwo(n)}

OrdInputs(size) ==
  {x \in [0..(size - 1) -> LinVals] : Weight(x) <= OrdMaxOnes}

Butterflies(p, stage) ==
  (0..(numGroups(p, stage) - 1)) \X (0..(butterflySize(stage) - 1))

indexI(stage, group, butterfly) == group * groupStep(stage) + butterfly
indexJ(stage, group, butterfly) ==
  indexI(stage, group, butterfly) + butterflySize(stage)

OrderInit ==
  /\ \E size \in OrdSizes :
       /\ plan = FFTPlan(size, DefaultConfig)
       /\ ctor = [state |-> "ready", size |-> size, error |-> "none"]
       /\ \E x \in OrdInputs(size), stage \in 0..(log2(size) - 1),
             o \in {"forward", "inverse"} :
            /\ mem = [q \in Buffers |-> IF q = 1 THEN x ELSE <<>>]
            /\ entry = [t \in Threads |-> IF t = 1 THEN x ELSE <<>>]
            /\ op = [t \in Threads |-> IF t = 1 THEN o ELSE "none"]
            /\ loc = [t \in Threads |->
                        IF t = 1 THEN [Loc0 EXCEPT !.stage = stage] ELSE Loc0]
            /\ steps = [t \in Threads |->
                          IF t = 1
                          THEN [bitReverse |-> size,
                                butterfly |-> stage * (size \div 2),
                                scale |-> 0]
                          ELSE Steps0]
  /\ threads = {1}
  /\ pc = [t \in Threads |-> IF t = 1 THEN "computeButterflies" ELSE "idle"]
  /\ data = [t \in Threads |-> IF t = 1 THEN 1 ELSE NullPtr]
  /\ prev = [t \in Threads |-> NoCall]
  /\ err = [t \in Threads |-> "none"]
  /\ calls = [t \in Threads |-> IF t = 1 THEN 1 ELSE 0]
  /\ trace = [t \in Threads |-> <<>>]
  /\ coef = <<Zero, Zero>>
  /\ applied = {}
  /\ ran = <<>>
  /\ inflight = <<>>
  /\ PolarIdle

Ran == {ran[n] : n \in DOMAIN ran}

\* butterfly (group, butterfly) of the stage reads data[i] and data[j]
ButterflyLoad(group, butterfly) ==
  LET id == <<group, butterfly>>
      stage == loc[1].stage
      d == mem[1]
  IN /\ id \in Butterflies(plan, stage)
     /\ id \notin Ran
     /\ id \notin DOMAIN inflight
     /\ inflight' = [b \in DOMAIN inflight \cup {id} |->
                       IF b = id
                       THEN [i |-> d[indexI(stage, group, butterfly)],
                             j |-> d[indexJ(stage, group, butterfly)]]
                       ELSE inflight[b]]
     /\ UNCHANGED <<plan, ctor, mem, threads, threadVars, coef, applied, ran, polarVars>>

\* ... and writes data[j] and data[i], computed from what it read
ButterflyStore(group, butterfly) ==
  LET id == <<group, butterfly>>
      stage == loc[1].stage
      i == indexI(stage, group, butterfly)
      j == indexJ(stage, group, butterfly)
  IN /\ id \in DOMAIN inflight
     /\ LET read == [mem[1] EXCEPT ![i] = inflight[id].i, ![j] = inflight[id].j]
            nd == butterflyIter(plan, read, stage, group, butterfly,
                                twiddle_idxOf(plan, stage, butterfly),
                                op[1] = "inverse")
        IN mem' = [mem EXCEPT ![1] = [@ EXCEPT ![i] = nd[i], ![j] = nd[j]]]
     /\ inflight' = [b \in DOMAIN inflight \ {id} |-> inflight[b]]
     /\ ran' = Append(ran, id)
     /\ UNCHANGED <<plan, ctor, threads, threadVars, coef, applied, polarVars>>

OrderNext ==
  \/ \E group \in 0..(MaxSize \div 2), butterfly \in 0..(MaxSize \div 2) :
       ButterflyLoad(group, butterfly)
  \/ \E group \in 0..(MaxSize \div 2), butterfly \in 0..(MaxSize \div 2) :
       ButterflyStore(group, butterfly)

SpecOrder == OrderInit /\ [][OrderNext]_vars

\* ---------------------------------------------------------- properties
Returned(t) == pc[t] \in {"done", "failed"}

\* n is 2^k for some k >= 0
IsPowerOfTwoNumber(n) == \E k \in 0..n : 2 ^ k = n

RECURSIVE CPow(_, _)
CPow(w, e) == IF e = 0 THEN One ELSE CMul(w, CPow(w, e - 1))

RECURSIVE DFTSum(_, _, _, _)
\* sum over n in [0, upto) of x[n] * w^(k*n)
DFTSum(x, k, w, upto) ==
  IF upto = 0 THEN Zero
  ELSE CAdd(DFTSum(x, k, w, upto - 1), CMul(x[upto - 1], CPow(w, k * (upto - 1))))

\* e^(-2*pi*i/N)
RootOfUnity(N) == Cis(1, N)

IsPrimitiveRoot(w, N) ==
  /\ CPow(w, N) = One
  /\ \A m \in 1..(N - 1) : CPow(w, m) # One

\* a forward call that has returned from a buffer of exactly plan.size elements
ForwardDone(t) ==
  /\ pc[t] = "done"
  /\ op[t] = "forward"
  /\ data[t] # NullPtr
  /\ BufLen(entry[t]) = plan.size

\* C1: the constructor throws for size 0 and for every size that is not a
\* power of two, leaving no plan, and succeeds for every power of two.
C1_SizeValidation ==
  ctor.state # "none" =>
    IF IsPowerOfTwoNumber(ctor.size)
    THEN ctor.state = "ready" /\ ctor.error = "none" /\ plan.size = ctor.size
    ELSE ctor.state = "threw" /\ ctor.error # "none" /\ plan = NoPlan

C1_Witness == ctor.state = "threw" /\ ctor.size = 7 /\ plan = NoPlan

\* C2 (as claimed): a call with a buffer whose length differs from plan.size
\* throws and leaves the buffer as it was.
C2_WrongLengthRejected ==
  \A t \in threads :
    (Returned(t) /\ data[t] # NullPtr /\ BufLen(entry[t]) # plan.size)
      => (err[t] # "none" /\ mem[data[t]] = entry[t])

\* C3: a call with a null pointer throws before any iteration of the
\* permutation, butterfly or scaling loop.
C3_NullFailsFirst ==
  \A t \in threads :
    (pc[t] # "idle" /\ data[t] = NullPtr)
      => (pc[t] = "failed" /\ err[t] = "Null data pointer" /\ steps[t] = Steps0)

C3_Witness ==
  pc[1] = "failed" /\ data[1] = NullPtr /\ op[1] = "inverse" /\ plan.size = 8

\* C4 (as claimed): a call that has returned either left the complete
\* transform of the buffer it was given, or threw and left that buffer
\* untouched.
C4_AllOrNothing ==
  \A t \in threads :
    Returned(t) =>
      \/ /\ pc[t] = "done"
         /\ err[t] = "none"
         /\ data[t] # NullPtr
         /\ BufLen(entry[t]) >= plan.size
         /\ mem[data[t]] = IF op[t] = "forward"
                           THEN forwardResult(plan, entry[t])
                           ELSE inverseResult(plan, entry[t])
      \/ /\ pc[t] = "failed"
         /\ err[t] # "none"
         /\ data[t] # NullPtr => mem[data[t]] = entry[t]

\* The part of C4 that holds: a call given a null pointer or a buffer of at
\* least plan.size elements returns all-or-nothing, and what the loop
\* iterations leave is what forwardResult / inverseResult compute.
AllOrNothingInBounds ==
  \A t \in threads :
    (Returned(t) /\ (data[t] = NullPtr \/ BufLen(entry[t]) >= plan.size)) =>
      IF data[t] = NullPtr
      THEN pc[t] = "failed" /\ err[t] # "none"
      ELSE /\ pc[t] = "done"
           /\ err[t] = "none"
           /\ mem[data[t]] = IF op[t] = "forward"
                             THEN forwardResult(plan, entry[t])
                             ELSE inverseResult(plan, entry[t])

C6_ForwardIsDFT ==
  \A t \in threads :
    ForwardDone(t) =>
      LET N == plan.size
          w == RootOfUnity(N)
      IN /\ IsPrimitiveRoot(w, N)
         /\ \A k \in DOMAIN plan.twiddles : plan.twiddles[k] = CPow(w, k)
         /\ 1 \in DOMAIN plan.twiddles => plan.twiddles[1] = w
         /\ \A k \in 0..(N - 1) :
              mem[data[t]][k] = DFTSum(entry[t], k, w, N)

C6_Witness ==
  /\ ForwardDone(1)
  /\ plan.size = 8
  /\ entry[1][1] = One
  /\ entry[1][6] = One

\* C7: forward followed by inverse on the same plan and buffer restores the
\* buffer, for every plan size, 2 included.
C7_RoundTrip ==
  \A t \in threads :
    ( /\ pc[t] = "done"
      /\ op[t] = "inverse"
      /\ data[t] # NullPtr
      /\ prev[t].pc = "done"
      /\ prev[t].op = "forward"
      /\ prev[t].data = data[t]
      /\ BufLen(prev[t].entry) = plan.size )
      => mem[data[t]] = prev[t].entry

C7_Witness ==
  /\ pc[1] = "done"
  /\ op[1] = "inverse"
  /\ prev[1].pc = "done"
  /\ prev[1].op = "forward"
  /\ prev[1].data = data[1]
  /\ plan.size = 2
  /\ prev[1].entry = [k \in 0..1 |-> IF k = 0 THEN One ELSE Zero]
  /\ entry[1] # prev[1].entry

Impulse(N) == [k \in 0..(N - 1) |-> IF k = 0 THEN One ELSE Zero]

\* C8: forward of the impulse (1 at index 0, 0 elsewhere) leaves 1+0i in
\* every element.
C8_ImpulseResponse ==
  \A t \in threads :
    (ForwardDone(t) /\ entry[t] = Impulse(plan.size))
      => \A k \in 0..(plan.size - 1) : mem[data[t]][k] = One

C8_Witness == ForwardDone(1) /\ plan.size = 8 /\ entry[1] = Impulse(8)

\* C9: forward of an all-zero buffer leaves the buffer all zero.
C9_ZeroInput ==
  \A t \in threads :
    (ForwardDone(t) /\ \A k \in DOMAIN entry[t] : entry[t][k] = Zero)
      => \A k \in DOMAIN entry[t] : mem[data[t]][k] = Zero

C9_Witness ==
  ForwardDone(1) /\ plan.size = 8 /\ \A k \in 0..7 : entry[1][k] = Zero

\* C10: forward(a*x + b*y) = a*forward(x) + b*forward(y), element by element.
C10_Linearity ==
  applied = {1, 2, 3} => mem[1] = Combine(coef[1], mem[2], coef[2], mem[3])

C10_Witness ==
  /\ applied = {1, 2, 3}
  /\ plan.size = 4
  /\ coef = <<(<<0, 1>>), (<<2, 3>>)>>
  /\ mem[2][1] # Zero
  /\ mem[3][2] # Zero
  /\ mem[2] # mem[3]

\* a thread's call has its buffer to itself: no other thread was given the
\* same pointer
OwnBuffer(t) ==
  /\ data[t] # NullPtr
  /\ \A u \in threads \ {t} : data[u] # data[t]

\* C11: with several threads calling forward / inverse on one plan at once,
\* each on a buffer of its own and without any lock, every call leaves in
\* its buffer what it leaves when it runs alone, whatever the interleaving
\* of the loop iterations.
C11_ThreadsDoNotInterfere ==
  \A t \in threads :
    (pc[t] = "done" /\ OwnBuffer(t) /\ BufLen(entry[t]) >= plan.size)
      => mem[data[t]] = IF op[t] = "forward"
                        THEN forwardResult(plan, entry[t])
                        ELSE inverseResult(plan, entry[t])

C11_Witness ==
  /\ plan.size = 4
  /\ pc[1] = "done" /\ op[1] = "inverse" /\ data[1] = 1
  /\ pc[2] = "computeButterflies" /\ op[2] = "forward" /\ data[2] = 2
  /\ loc[2].stage = 1
  /\ BufLen(entry[1]) = 4 /\ BufLen(entry[2]) = 4
  /\ entry[1][1] = One /\ entry[2] = ShiftedImpulse(4)

\* C12: once constructed the plan never changes, whatever calls of forward
\* and inverse are made on it, succeeding or failing, on distinct buffers or
\* on the same one, one after the other or interleaved: size, stage count,
\* scale factor, twiddle table and permutation table keep their values, and
\* the inverse transform leaves the twiddle table unwritten.
C12_PlanNeverChanges ==
  [][ctor.state = "ready" =>
       /\ ctor' = ctor
       /\ plan'.size = plan.size
       /\ plan'.stages = plan.stages
       /\ plan'.scaleFactor = plan.scaleFactor
       /\ plan'.twiddles = plan.twiddles
       /\ plan'.bitReversalIndices = plan.bitReversalIndices
       /\ plan'.config = plan.config]_vars

C12_Witness ==
  /\ plan = FFTPlan(4, DefaultConfig)
  /\ pc[1] = "done" /\ op[1] = "inverse" /\ data[1] = 1
  /\ pc[2] = "done" /\ op[2] = "inverse" /\ data[2] = 1
  /\ BufLen(entry[1]) = 4
  /\ entry[2] # entry[1]
  /\ entry[2] # inverseResult(plan, entry[1])

\* a call that has returned from a buffer of at least plan.size elements
CallDone(t) ==
  /\ pc[t] = "done"
  /\ data[t] # NullPtr
  /\ BufLen(entry[t]) >= plan.size

ClaimedButterflies == plan.stages * (plan.size \div 2)
ClaimedScalings(t) == IF op[t] = "inverse" THEN plan.size ELSE 0

TerminatesInBounds ==
  \A t \in threads :
    (pc[t] # "idle" /\ (data[t] = NullPtr \/ BufLen(entry[t]) >= plan.size))
      => \/ pc[t] = "failed" /\ steps[t] = Steps0
         \/ /\ pc[t] = "done"
            /\ steps[t].butterfly = ClaimedButterflies
            /\ steps[t].scale = ClaimedScalings(t)
         \/ /\ Running(t)
            /\ ~AccessOutOfBounds(t)
            /\ steps[t].butterfly <= ClaimedButterflies
            /\ steps[t].scale <= ClaimedScalings(t)

\* bit k of n, bit 0 the least significant
Bit(n, k) == (n \div (2 ^ k)) % 2

\* m is n with its lowest `bits` bits in reverse order and nothing above them
IsBitReversal(m, n, bits) ==
  /\ m \in 0..((2 ^ bits) - 1)
  /\ \A k \in 0..(bits - 1) : Bit(m, k) = Bit(n, bits - 1 - k)

\* C15: the permutation table of a ready plan has exactly size entries, is a
\* bijection of [0, size) onto itself, and its entry i is the number whose
\* stages-bit binary representation is that of i read backwards.
C15_PermutationTable ==
  ctor.state = "ready" =>
    LET perm == plan.bitReversalIndices
        idx == 0..(plan.size - 1)
    IN /\ DOMAIN perm = idx
       /\ Cardinality(DOMAIN perm) = plan.size
       /\ \A i \in idx : perm[i] \in idx
       /\ \A i \in idx, k \in idx : perm[i] = perm[k] => i = k
       /\ \A m \in idx : \E i \in idx : perm[i] = m
       /\ \A i \in idx : IsBitReversal(perm[i], i, plan.stages)

C15_Witness ==
  /\ ctor.state = "ready"
  /\ plan.size = 8
  /\ plan.stages = 3
  /\ plan.bitReversalIndices[1] = 4
  /\ plan.bitReversalIndices[3] = 6
  /\ plan.bitReversalIndices[5] = 5

\* the iterations of the permute loop a call has made so far
PermuteEvents(t) ==
  {n \in DOMAIN trace[t] : trace[t][n].loop = "bitReverse"}

\* the permute loop of the call has made its last iteration and nothing has
\* run after it
PermuteJustFinished(t) ==
  /\ pc[t] \in {"computeButterflies", "scale", "done"}
  /\ steps[t] = [bitReverse |-> plan.size, butterfly |-> 0, scale |-> 0]

\* C16: the permute step swaps buffer[i] and buffer[permutation[i]] only
\* when i < permutation[i]: every pair that the permutation exchanges is
\* swapped exactly once, an index the permutation leaves in place is never
\* written, and when the step has finished buffer[i] holds what
\* buffer[permutation[i]] held before it, for every i below size.
C16_PermuteStep ==
  \A t \in threads :
    LET perm == plan.bitReversalIndices
        ev == trace[t]
    IN /\ pc[t] = "bitReverse" \/ PermuteJustFinished(t) =>
            /\ \A n \in PermuteEvents(t) :
                 /\ ev[n].i = n - 1
                 /\ ev[n].j = perm[ev[n].i]
                 /\ ev[n].wrote <=> ev[n].i < ev[n].j
                 /\ ev[n].wrote => perm[ev[n].i] # ev[n].i /\ perm[ev[n].j] # ev[n].j
            /\ \A n \in PermuteEvents(t), m \in PermuteEvents(t) :
                 (n # m /\ ev[n].wrote /\ ev[m].wrote)
                   => {ev[n].i, ev[n].j} \cap {ev[m].i, ev[m].j} = {}
       /\ PermuteJustFinished(t) =>
            /\ \A i \in 0..(plan.size - 1) :
                 perm[i] # i =>
                   Cardinality({n \in PermuteEvents(t) :
                                  ev[n].wrote /\ i \in {ev[n].i, ev[n].j}}) = 1
            /\ \A i \in (0..(plan.size - 1)) \cap DOMAIN entry[t] :
                 mem[data[t]][i] = entry[t][perm[i]]

C16_Witness ==
  /\ PermuteJustFinished(1)
  /\ plan.size = 8
  /\ BufLen(entry[1]) = 8
  /\ entry[1][1] = One /\ entry[1][4] = Zero
  /\ mem[data[1]][4] = One /\ mem[data[1]][1] = Zero
  /\ entry[1][2] = One /\ mem[data[1]][2] = One

\* C17: the permutation is an involution, permutation[permutation[i]] = i,
\* so applying the permute step a second time restores the buffer: to the
\* buffer a call was entered with when applied after the call's own permute
\* step, and to itself when applied twice to any buffer.
C17_PermutationInvolution ==
  ctor.state = "ready" =>
    LET perm == plan.bitReversalIndices
    IN /\ \A i \in 0..(plan.size - 1) : perm[perm[i]] = i
       /\ \A t \in threads :
            (PermuteJustFinished(t) /\ BufLen(entry[t]) >= plan.size)
              => bitReverse(plan, mem[data[t]]) = entry[t]
       /\ \A b \in Allocated :
            BufLen(mem[b]) >= plan.size
              => bitReverse(plan, bitReverse(plan, mem[b])) = mem[b]

C17_Witness ==
  /\ PermuteJustFinished(1)
  /\ plan.size = 8
  /\ BufLen(entry[1]) = 8
  /\ entry[1][3] = One /\ entry[1][6] = Zero
  /\ mem[data[1]][6] = One
  /\ bitReverse(plan, mem[data[1]])[3] = One

\* the butterflies of stage s a call has made so far
StageEvents(t, s) ==
  {n \in DOMAIN trace[t] :
     trace[t][n].loop = "butterflyPass" /\ trace[t][n].stage = s}

\* C18: in every execution of forward / inverse the permute step is complete
\* before stage 0 begins; the stages run in the order 0, 1, ..., stages - 1,
\* each once; and a butterfly of a stage runs only when every butterfly of
\* every earlier stage has run.  (Every state is the state right after the
\* iteration logged last, so what is said of the last entry of the log is
\* said of each of its entries.)
C18_StageOrder ==
  \A t \in threads :
    LET ev == trace[t]
        n == Len(ev)
        half == plan.size \div 2
    IN /\ (n > 0 /\ ev[n].loop = "butterflyPass") =>
            /\ Cardinality(PermuteEvents(t)) = plan.size
            /\ \A m \in PermuteEvents(t) : m <= plan.size
            /\ ev[n].stage \in 0..(plan.stages - 1)
            /\ \A s \in 0..(ev[n].stage - 1) :
                 Cardinality(StageEvents(t, s)) = half
            /\ \A m \in 1..n :
                 ev[m].loop = "butterflyPass" => ev[m].stage <= ev[n].stage
            /\ \A m \in StageEvents(t, ev[n].stage) \ {n} :
                 <<ev[m].group, ev[m].butterfly>> # <<ev[n].group, ev[n].butterfly>>
            /\ Cardinality(StageEvents(t, ev[n].stage)) <= half
       /\ (pc[t] = "scale" \/ CallDone(t)) =>
            \A s \in 0..(plan.stages - 1) :
              Cardinality(StageEvents(t, s)) = half

C18_Witness ==
  /\ plan.size = 8
  /\ pc[1] = "scale"
  /\ Len(trace[1]) = 20
  /\ trace[1][8].loop = "bitReverse"
  /\ trace[1][9].loop = "butterflyPass" /\ trace[1][9].stage = 0
  /\ trace[1][13].stage = 1
  /\ trace[1][20].stage = 2

\* C19: the butterflies of one stage, of different groups and of one group,
\* run in any order and overlapping in time leave the buffer that
\* butterflyPass leaves when it runs them one after the other, group 0, 1,
\* ..., numGroups - 1.
C19_GroupsIndependent ==
  (Ran = Butterflies(plan, loc[1].stage) /\ ctor.state = "ready")
    => mem[1] = butterflyPass(plan, entry[1], loc[1].stage, op[1] = "inverse")

C19_Witness ==
  /\ plan.size = 8
  /\ loc[1].stage = 1
  /\ op[1] = "inverse"
  /\ ran = <<(<<1, 1>>), (<<0, 0>>), (<<1, 0>>), (<<0, 1>>)>>
  /\ entry[1][7] = <<2, 3>>
  /\ mem[1] # entry[1]

\* the buffer indices the stage-s butterflies logged so far have touched
StageIndices(t, s) ==
  UNION {{trace[t][n].i, trace[t][n].j} : n \in StageEvents(t, s)}

\* C20: in every stage s each butterfly touches the pair (i, j) with
\* i = g * 2^(s+1) + b and j = i + 2^s, both in [0, size); no two
\* butterflies of a stage share an index, and the butterflies of a complete
\* stage cover [0, size); no loop of a call accesses an index outside
\* [0, size), neither in an iteration made nor in the one about to be made.
\* (As for C18, what is said of the last entry of the log is said of each.)
C20_ButterflyPairs ==
  \A t \in threads :
    LET ev == trace[t]
        n == Len(ev)
        idx == 0..(plan.size - 1)
    IN /\ n > 0 => (ev[n].i \in idx /\ ev[n].j \in idx)
       /\ (n > 0 /\ ev[n].loop = "butterflyPass") =>
            LET s == ev[n].stage
                g == ev[n].group
                b == ev[n].butterfly
            IN /\ g \in 0..((plan.size \div (2 ^ (s + 1))) - 1)
               /\ b \in 0..((2 ^ s) - 1)
               /\ ev[n].i = g * (2 ^ (s + 1)) + b
               /\ ev[n].j = ev[n].i + 2 ^ s
               /\ \A m \in StageEvents(t, s) \ {n} :
                    {ev[m].i, ev[m].j} \cap {ev[n].i, ev[n].j} = {}
               /\ Cardinality(StageEvents(t, s)) = plan.size \div 2
                    => StageIndices(t, s) = idx
       /\ pc[t] = "bitReverse" =>
            (loc[t].i \in idx /\ plan.bitReversalIndices[loc[t].i] \in idx)
       /\ pc[t] = "computeButterflies" =>
            (ButterflyI(t) \in idx /\ ButterflyJ(t) \in idx)
       /\ pc[t] = "scale" => loc[t].i \in idx

C20_Witness ==
  /\ plan.size = 8
  /\ pc[1] = "computeButterflies"
  /\ loc[1].stage = 2
  /\ Len(trace[1]) = 16
  /\ trace[1][16].stage = 1
  /\ trace[1][16].i = 5
  /\ trace[1][16].j = 7
  /\ StageIndices(1, 1) = 0..7

\* C21: the twiddle table has exactly size/2 entries; in stage s butterfly b
\* of every group reads entry b * (size >> (s+1)): the index is 0 at the
\* first butterfly of each group, grows by the stride size >> (s+1) from one
\* butterfly of a group to the next, and is below size/2 at every read made
\* and at the read about to be made, so that no read falls outside the
\* table.  (What is said of the last entry of the log is said of each.)
C21_TwiddleIndex ==
  ctor.state = "ready" =>
    /\ DOMAIN plan.twiddles = 0..((plan.size \div 2) - 1)
    /\ Cardinality(DOMAIN plan.twiddles) = plan.size \div 2
    /\ \A t \in threads :
         LET ev == trace[t]
             n == Len(ev)
         IN /\ (n > 0 /\ ev[n].loop = "butterflyPass") =>
                 LET stride == plan.size \div (2 ^ (ev[n].stage + 1))
                 IN /\ ev[n].twiddle_idx = ev[n].butterfly * stride
                    /\ ev[n].butterfly = 0 => ev[n].twiddle_idx = 0
                    /\ ev[n].twiddle_idx < plan.size \div 2
                    /\ ev[n].twiddle_idx \in DOMAIN plan.twiddles
                    /\ ( /\ n > 1
                         /\ ev[n - 1].loop = "butterflyPass"
                         /\ ev[n - 1].stage = ev[n].stage
                         /\ ev[n - 1].group = ev[n].group )
                         => ev[n].twiddle_idx = ev[n - 1].twiddle_idx + stride
            /\ pc[t] = "computeButterflies" =>
                 loc[t].twiddle_idx \in DOMAIN plan.twiddles

C21_Witness ==
  /\ plan.size = 8
  /\ Len(trace[1]) = 16
  /\ trace[1][14].group = 0 /\ trace[1][14].twiddle_idx = 2
  /\ trace[1][15].group = 1 /\ trace[1][15].twiddle_idx = 0
  /\ trace[1][16].stage = 1 /\ trace[1][16].butterfly = 1
  /\ trace[1][16].twiddle_idx = 2
  /\ BufLen(plan.twiddles) = 4

\* the iterations of the scaling loop a call has made so far
ScaleEvents(t) == {n \in DOMAIN trace[t] : trace[t][n].loop = "scale"}

\* the buffer a call has once its permute step and all its stages are done
Staged(t) ==
  computeButterflies(plan, bitReverse(plan, entry[t]), op[t] = "inverse")

\* C22: inverse runs the permute step and the stages that forward runs, in
\* the same order on the same indices, with the conjugate of the twiddle
\* forward uses at each butterfly; only when its last stage is complete does
\* it multiply the size elements of the buffer by scaleFactor = 1/size, each
\* once; forward never scales.  Thread 1 is a forward call and thread 2 an
\* inverse call on equal buffers.
C22_InverseConjugatesThenScales ==
  LET fwd == trace[1]
      inv == trace[2]
      common == (DOMAIN fwd) \cap (DOMAIN inv)
      half == plan.size \div 2
      unscaled == plan.size + plan.stages * half
  IN /\ \A n \in common :
          inv[n].loop # "scale" =>
            /\ [inv[n] EXCEPT !.twiddle = Zero] = [fwd[n] EXCEPT !.twiddle = Zero]
            /\ inv[n].twiddle = Conj(fwd[n].twiddle)
            /\ fwd[n].loop = "butterflyPass" =>
                 fwd[n].twiddle = plan.twiddles[fwd[n].twiddle_idx]
     /\ \A n \in ScaleEvents(2) :
          /\ n > unscaled
          /\ \A m \in 1..unscaled : inv[m].loop # "scale"
          /\ \A s \in 0..(plan.stages - 1) : Cardinality(StageEvents(2, s)) = half
          /\ inv[n].i = (n - unscaled) - 1
          /\ inv[n].i \in 0..(plan.size - 1)
     /\ (plan.scaleFactor * plan.size) % Modulus = 1
     /\ pc[2] = "scale" =>
          \A k \in 0..(plan.size - 1) :
            mem[2][k] = IF k < loc[2].i
                        THEN CMulReal(Staged(2)[k], plan.scaleFactor)
                        ELSE Staged(2)[k]
     /\ pc[2] = "done" =>
          /\ Cardinality(ScaleEvents(2)) = plan.size
          /\ Len(inv) = unscaled + plan.size
          /\ \A k \in 0..(plan.size - 1) :
               mem[2][k] = CMulReal(Staged(2)[k], plan.scaleFactor)
     /\ ScaleEvents(1) = {}
     /\ pc[1] # "scale"
     /\ pc[1] = "done" => (Len(fwd) = unscaled /\ mem[1] = Staged(1))

C22_Witness ==
  /\ plan.size = 8
  /\ pc[1] = "done" /\ pc[2] = "done"
  /\ Len(trace[1]) = 20 /\ Len(trace[2]) = 28
  /\ trace[1][18].twiddle # trace[2][18].twiddle
  /\ trace[2][21].loop = "scale"
  /\ entry[1] = entry[2]
  /\ entry[2][1] = One
  /\ mem[2] # Staged(2)

\* a call has been made, or is being made, on the plan
Called == \E t \in Threads : pc[t] # "idle" \/ prev[t] # NoCall \/ err[t] # "none"

\* validation has succeeded and both tables are filled
TablesFilled ==
  /\ IsPowerOfTwoNumber(plan.size)
  /\ plan.size = ctor.size
  /\ DOMAIN plan.twiddles = 0..((plan.size \div 2) - 1)
  /\ DOMAIN plan.bitReversalIndices = 0..(plan.size - 1)
  /\ plan = FFTPlan(ctor.size, plan.config)

\* C23: a plan is under construction or ready.  No forward or inverse call
\* runs before the plan is ready: not while the constructor runs, and not
\* after validation has failed, when no plan exists.  A ready plan has a
\* power-of-two size and both tables filled, ready is entered from the last
\* statement of the constructor only, and a ready plan stays ready and keeps
\* every member.
C23_PlanStates ==
  /\ [](/\ ctor.state \in {"none", "validate", "stages", "initTwiddles",
                           "initBitReversalIndices", "ready", "threw"}
        /\ Called => ctor.state = "ready"
        /\ ctor.state = "ready" => TablesFilled
        /\ ctor.state = "threw" =>
             (~IsPowerOfTwoNumber(ctor.size) /\ plan = NoPlan))
  /\ [][/\ ctor.state = "ready" => (ctor'.state = "ready" /\ plan' = plan)
        /\ ctor.state = "threw" => (ctor' = ctor /\ plan' = plan)
        /\ (ctor.state # "ready" /\ ctor'.state = "ready") =>
             (/\ ctor.state = "initBitReversalIndices"
              /\ DOMAIN plan.twiddles = 0..((plan.size \div 2) - 1)
              /\ TablesFilled')
        /\ threadVars' # threadVars => (ctor.state = "ready" /\ ctor' = ctor)]_vars

C23_Witness ==
  /\ ctor.state = "ready"
  /\ plan.size = 8
  /\ BufLen(plan.twiddles) = 4
  /\ BufLen(plan.bitReversalIndices) = 8
  /\ pc[1] = "done"
  /\ op[1] = "inverse"
  /\ Len(trace[1]) = 28

\* C24: the phase of the PolarValue lies in (-pi, pi] after construction,
\* setPhase and every arithmetic operation: it is never -pi and never
\* outside the interval.
C24_PhaseInHalfOpenInterval == -PI < value.phase_ /\ value.phase_ <= PI

\* the phase is in the closed interval [-pi, pi]
PhaseInClosedInterval == -PI <= value.phase_ /\ value.phase_ <= PI

\* C25: the magnitude of the PolarValue lies in [0, MAX_MAGNITUDE]:
\* constructing or setting a negative magnitude or one above MAX_MAGNITUDE
\* raises PolarError, and the bound holds after any sequence of the in-place
\* operators.
C25_MagnitudeInRange ==
  /\ FLessEq(0, value.magnitude_)
  /\ FLessEq(value.magnitude_, MAX_MAGNITUDE)
  /\ (/\ last.op \in {"PolarValue", "setMagnitude"}
      /\ (FLess(last.operand, 0) \/ FLess(MAX_MAGNITUDE, last.operand)))
       => thrown \in {"Negative magnitude",
                      "Magnitude exceeds maximum safe value"}

\* construction and setMagnitude refuse what they are said to refuse
SetMagnitudeRefuses ==
  (/\ last.op \in {"PolarValue", "setMagnitude"}
   /\ (FLess(last.operand, 0) \/ FLess(MAX_MAGNITUDE, last.operand)))
    => thrown \in {"Negative magnitude", "Magnitude exceeds maximum safe value"}

\* C26: dividing by a value of magnitude at most MIN_MAGNITUDE (operator/=,
\* operator/, PolarOperations::divide) raises PolarError, as does the
\* reciprocal of such a value, and a failing operator/= leaves magnitude and
\* phase of the dividend as they were.
C26_DivisionByZero ==
  /\ []((/\ last.op \in {"operator/=", "operator/", "divide"}
         /\ FLessEq(FAbs(last.operand), MIN_MAGNITUDE))
          => thrown = "Division by zero magnitude")
  /\ []((/\ last.op \in {"reciprocal", "PolarOperations::reciprocal"}
         /\ FLessEq(FAbs(last.operand), MIN_MAGNITUDE))
          => thrown = "Reciprocal of zero")
  /\ [][(/\ last'.op = "operator/="
         /\ thrown' # NoError) => value' = value]_vars

C26_Witness ==
  /\ last.op = "operator/="
  /\ last.operand = MIN_MAGNITUDE
  /\ thrown = "Division by zero magnitude"
  /\ value.magnitude_ = FloatOne
  /\ value.phase_ = 3

====
